---- MODULE Spec2Model ----
(***************************************************************************)
(* The points ledger of howling-narwhal: TransactionService (the store,   *)
(* the cached projection, add, spendPoints, showPayerPoints) and the      *)
(* three express routes in front of it.                                    *)
(*                                                                         *)
(* A Date is modelled as [valid, ms]: new Date(s) of an unparseable string *)
(* is the Invalid Date, whose getTime() is NaN.  A Record<string, number>  *)
(* is modelled as the sequence of its entries in key-insertion order,      *)
(* which is the order Object.entries returns.  Points are integers.        *)
(***************************************************************************)
EXTENDS Integers, Sequences, FiniteSets, TLC

VARIABLES
    transactionStore,            \* TransactionService.transactionStore
    transactionSnapshotBalance,  \* TransactionService.transactionSnapshotBalance
    now,                         \* the wall clock read by new Date()
    pc,                          \* "idle", or "spend" inside the spendPoints loop
    pointsToSpend,               \* spendPoints: its argument
    totalNumberOfTransactions,   \* spendPoints: store length captured at call start
    pointsLeft,                  \* spendPoints: points still to spend
    transactionIndex,            \* spendPoints: index of the next entry to read
    ret,                         \* what the last service call returned or threw
    res,                         \* the last HTTP response written by a route
    req,                         \* history: the last request a route handled
    search,                      \* findIndexFromTimestamp: its arguments, locals and result
    storeAtCall,                 \* history: the store when the current/last spendPoints began
    balanceAtCall,               \* history: the projection when it began
    issued,                      \* history: the transactions spendPoints built during that call
    walk,                        \* history: what each iteration of that call's loop read and did
    runBudget,                   \* history: what the spends since the last add have left unrequested
    budgetAtCall,                \* history: runBudget when the current/last spendPoints began
    wentNegative,                \* history: some add from outside left a balance below 0
    nSpends                      \* spendPoints calls so far

vars == <<transactionStore, transactionSnapshotBalance, now, pc, pointsToSpend,
          totalNumberOfTransactions, pointsLeft, transactionIndex, ret, res,
          req, search, storeAtCall, balanceAtCall, issued, walk, runBudget,
          budgetAtCall, wentNegative, nSpends>>

----------------------------------------------------------------------------
(* Bounds of the model *)

MaxTxns == 2
MaxSpends == 2
MaxTime == 2

Payers == {"DANNON", "UNILEVER"}
PointValues == {-1, 2}

----------------------------------------------------------------------------
(* Values *)

Min(a, b) == IF a <= b THEN a ELSE b

Max(a, b) == IF a >= b THEN a ELSE b

Date(ms) == [valid |-> TRUE, ms |-> ms]

InvalidDate == [valid |-> FALSE, ms |-> 0]

\* A JavaScript number: an integer, or NaN
Number(v) == [nan |-> FALSE, v |-> v]

NaN == [nan |-> TRUE, v |-> 0]

SpendAmounts == {Number(-1), Number(0), Number(1), Number(3), NaN}

\* The parseable timestamps: at and after the clock's first reading, in the past once time has passed
Timestamps == {Date(1), Date(2)}

Transaction(payer, points, timestamp) ==
    [payer |-> payer, points |-> points, timestamp |-> timestamp]

Transactions ==
    {Transaction(p, n, t) : p \in Payers, n \in PointValues, t \in Timestamps}

Batches ==
    {<<t>> : t \in Transactions} \cup
    {<<t, Transaction("UNILEVER", 1, Date(1))>> : t \in Transactions}

----------------------------------------------------------------------------
(* Array.prototype.sort with sortByTimeFn *)

\* The comparator with its operands swapped: b.timestamp.getTime() - a.timestamp.getTime()
sortByTimeFnDescending(a, b) ==
    IF a.timestamp.valid /\ b.timestamp.valid
    THEN [nan |-> FALSE, v |-> b.timestamp.ms - a.timestamp.ms]
    ELSE [nan |-> TRUE, v |-> 0]

\* a.timestamp.getTime() - b.timestamp.getTime(); NaN when either Date is invalid
sortByTimeFn(a, b) ==
    IF a.timestamp.valid /\ b.timestamp.valid
    THEN [nan |-> FALSE, v |-> a.timestamp.ms - b.timestamp.ms]
    ELSE [nan |-> TRUE, v |-> 0]

\* The value sort uses for a pair: ToNumber of the comparator's result, NaN read as +0
SortCompare(a, b) ==
    LET r == sortByTimeFn(a, b) IN IF r.nan THEN 0 ELSE r.v

\* Whether the comparator is a consistent comparison function for the elements of s
ConsistentComparator(s) ==
    \/ \A i \in DOMAIN s : s[i].timestamp.valid
    \/ \A i, j, k \in DOMAIN s :
        /\ (SortCompare(s[i], s[j]) = 0 /\ SortCompare(s[j], s[k]) = 0)
              => SortCompare(s[i], s[k]) = 0
        /\ (SortCompare(s[i], s[j]) < 0 /\ SortCompare(s[j], s[k]) < 0)
              => SortCompare(s[i], s[k]) < 0
        /\ (SortCompare(s[i], s[j]) > 0 /\ SortCompare(s[j], s[k]) > 0)
              => SortCompare(s[i], s[k]) > 0

\* x put into the sorted sequence s after every element that does not compare greater
RECURSIVE InsertSorted(_, _)
InsertSorted(s, x) ==
    IF s = <<>> THEN <<x>>
    ELSE IF SortCompare(s[Len(s)], x) <= 0 THEN Append(s, x)
    ELSE Append(InsertSorted(SubSeq(s, 1, Len(s) - 1), x), s[Len(s)])

\* The stable sort of s
RECURSIVE StableSort(_)
StableSort(s) ==
    IF s = <<>> THEN <<>>
    ELSE InsertSorted(StableSort(SubSeq(s, 1, Len(s) - 1)), s[Len(s)])

AllOrders(s) ==
    {[i \in DOMAIN s |-> s[p[i]]] : p \in Permutations(DOMAIN s)}

\* What sort may leave in the array: the stable order under a consistent
\* comparator, and an implementation-defined order otherwise
SortOutcomes(s) ==
    IF ConsistentComparator(s) THEN {StableSort(s)} ELSE AllOrders(s)

----------------------------------------------------------------------------
(* Projections *)

\* projection[payer], or "undefined"
HasKey(projection, payer) ==
    \E i \in DOMAIN projection : projection[i].payer = payer

Lookup(projection, payer) ==
    LET i == CHOOSE i \in DOMAIN projection : projection[i].payer = payer
    IN projection[i].points

\* projection[transaction.payer] = transaction.points: the last entry wins
AccumulateOverwrite(projection, transaction) ==
    IF HasKey(projection, transaction.payer)
    THEN [i \in DOMAIN projection |->
            IF projection[i].payer = transaction.payer
            THEN [projection[i] EXCEPT !.points = transaction.points]
            ELSE projection[i]]
    ELSE Append(projection,
                [payer |-> transaction.payer, points |-> transaction.points])

\* projection[transaction.payer] += transaction.points, the key created at 0 first
Accumulate(projection, transaction) ==
    IF HasKey(projection, transaction.payer)
    THEN [i \in DOMAIN projection |->
            IF projection[i].payer = transaction.payer
            THEN [projection[i] EXCEPT !.points = @ + transaction.points]
            ELSE projection[i]]
    ELSE Append(projection,
                [payer |-> transaction.payer, points |-> 0 + transaction.points])

RECURSIVE ProjectionLoop(_, _)
ProjectionLoop(subsetTransactions, projection) ==
    IF subsetTransactions = <<>> THEN projection
    ELSE ProjectionLoop(Tail(subsetTransactions),
                        Accumulate(projection, Head(subsetTransactions)))

\* The projection of this.transactionStore.slice(index) without Math.max(index, 0):
\* slice counts a negative index from the end of the array
buildProjectionFromIndexUnclamped(store, index) ==
    LET startIdx == IF index < 0 THEN Max(Len(store) + index, 0) ELSE index
        subsetTransactions == SubSeq(store, startIdx + 1, Len(store))
    IN ProjectionLoop(subsetTransactions, <<>>)

buildProjectionFromIndex(store, index) ==
    LET startIdx == Max(index, 0)
        subsetTransactions == SubSeq(store, startIdx + 1, Len(store))
    IN ProjectionLoop(subsetTransactions, <<>>)

\* A projection that lists only the payers whose balance is not 0
buildProjectionNonZero(store) ==
    SelectSeq(buildProjectionFromIndex(store, 0), LAMBDA entry : entry.points # 0)

\* buildProjection() without a timestamp
buildProjection(store) == buildProjectionFromIndex(store, 0)

----------------------------------------------------------------------------
(* TransactionService *)

Returned(op, value) == [op |-> op, threw |-> FALSE, value |-> value]

Threw(op) == [op |-> op, threw |-> TRUE, value |-> <<>>]

RECURSIVE SumPoints(_)
SumPoints(projection) ==
    IF projection = <<>> THEN 0
    ELSE Head(projection).points + SumPoints(Tail(projection))

NoneNegative(projection) == \A i \in DOMAIN projection : projection[i].points >= 0

\* add that rebuilds the projection before the push instead of after the sort
addStaleProjection(transactions) ==
    \E sorted \in SortOutcomes(transactionStore \o transactions) :
        /\ transactionStore' = sorted
        /\ transactionSnapshotBalance' = buildProjection(transactionStore)

\* add without the sort: push, rebuild the cached projection
addUnsorted(transactions) ==
    /\ transactionStore' = transactionStore \o transactions
    /\ transactionSnapshotBalance' = buildProjection(transactionStore')

\* add(...transactions): push, sort, rebuild the cached projection
add(transactions) ==
    \E sorted \in SortOutcomes(transactionStore \o transactions) :
        /\ transactionStore' = sorted
        /\ transactionSnapshotBalance' = buildProjection(sorted)

spendLocals == <<pointsToSpend, totalNumberOfTransactions, pointsLeft, transactionIndex>>

history == <<storeAtCall, balanceAtCall, issued, walk, runBudget, budgetAtCall,
             wentNegative>>

\* What a call of add from outside does to the history variables
AddHistory ==
    /\ storeAtCall' = <<>>
    /\ balanceAtCall' = <<>>
    /\ issued' = <<>>
    /\ walk' = <<>>
    /\ budgetAtCall' = 0
    /\ runBudget' = IF NoneNegative(transactionSnapshotBalance')
                    THEN SumPoints(transactionSnapshotBalance') ELSE -1
    /\ wentNegative' = (wentNegative \/ ~NoneNegative(transactionSnapshotBalance'))

\* A call of add from outside that may start while spendPoints is in its loop
AddInterleaved(transactions) ==
    /\ add(transactions)
    /\ ret' = Returned("add", <<>>)
    /\ AddHistory
    /\ UNCHANGED <<now, pc, spendLocals, nSpends>>

\* A call of add from outside the service
Add(transactions) ==
    /\ pc = "idle"
    /\ add(transactions)
    /\ ret' = Returned("add", <<>>)
    /\ AddHistory
    /\ pointsToSpend' = Number(0)
    /\ totalNumberOfTransactions' = 0
    /\ pointsLeft' = 0
    /\ transactionIndex' = 0
    /\ UNCHANGED <<now, pc, nSpends>>

\* spendPoints whose guard also rejects 0: amount <= 0
SpendPointsBeginStrict(amount) ==
    /\ pc = "idle"
    /\ nSpends' = nSpends + 1
    /\ pointsToSpend' = amount
    /\ storeAtCall' = transactionStore
    /\ balanceAtCall' = transactionSnapshotBalance
    /\ issued' = <<>>
    /\ walk' = <<>>
    /\ budgetAtCall' = runBudget
    /\ totalNumberOfTransactions' = Len(transactionStore)
    /\ pointsLeft' = amount.v
    /\ transactionIndex' = 0
    /\ IF amount.nan \/ amount.v <= 0
       THEN /\ ret' = Threw("spendPoints")
            /\ pc' = "idle"
       ELSE /\ ret' = Returned("none", <<>>)
            /\ pc' = "spend"
    /\ UNCHANGED <<transactionStore, transactionSnapshotBalance, now,
                   runBudget, wentNegative>>

\* spendPoints without its guard: a NaN or negative amount reaches the loop,
\* whose condition pointsLeft > 0 is false for both
SpendPointsBeginUnguarded(amount) ==
    /\ pc = "idle"
    /\ nSpends' = nSpends + 1
    /\ pointsToSpend' = amount
    /\ storeAtCall' = transactionStore
    /\ balanceAtCall' = transactionSnapshotBalance
    /\ issued' = <<>>
    /\ walk' = <<>>
    /\ budgetAtCall' = runBudget
    /\ totalNumberOfTransactions' = Len(transactionStore)
    /\ pointsLeft' = amount.v
    /\ transactionIndex' = 0
    /\ ret' = Returned("none", <<>>)
    /\ pc' = "spend"
    /\ UNCHANGED <<transactionStore, transactionSnapshotBalance, now,
                   runBudget, wentNegative>>

\* spendPoints(amount) up to its loop: the guard, then the three locals
SpendPointsBegin(amount) ==
    /\ pc = "idle"
    /\ nSpends' = nSpends + 1
    /\ pointsToSpend' = amount
    /\ storeAtCall' = transactionStore
    /\ balanceAtCall' = transactionSnapshotBalance
    /\ issued' = <<>>
    /\ walk' = <<>>
    /\ budgetAtCall' = runBudget
    /\ totalNumberOfTransactions' = Len(transactionStore)
    /\ pointsLeft' = amount.v
    /\ transactionIndex' = 0
    /\ IF amount.nan \/ amount.v < 0
       THEN /\ ret' = Threw("spendPoints")
            /\ pc' = "idle"
       ELSE /\ ret' = Returned("none", <<>>)
            /\ pc' = "spend"
    /\ UNCHANGED <<transactionStore, transactionSnapshotBalance, now,
                   runBudget, wentNegative>>

\* The loop condition on the store's length as it is now, not as captured
LoopContinuesLiveLength ==
    /\ pointsLeft > 0
    /\ transactionIndex < Len(transactionStore)

\* while (pointsLeft > 0 && transactionIndex < totalNumberOfTransactions)
LoopContinues ==
    /\ pointsLeft > 0
    /\ transactionIndex < totalNumberOfTransactions

\* The clamp without the payer's balance: Math.min(points, pointsLeft)
PointsToRemoveUnclamped(points, left, balance) == Min(points, left)

\* Math.min(Math.min(points, pointsLeft), this.transactionSnapshotBalance[payer])
PointsToRemove(points, left, balance) == Min(Min(points, left), balance)

\* The loop body that subtracts from the entry it reads instead of appending
SpendPointsStepInPlace ==
    /\ pc = "spend"
    /\ LoopContinues
    /\ LET entry == transactionStore[transactionIndex + 1]
           pointsToRemove == Min(entry.points, pointsLeft)
       IN /\ pointsLeft' = pointsLeft - pointsToRemove
          /\ transactionStore' =
                [transactionStore EXCEPT ![transactionIndex + 1].points = @ - pointsToRemove]
          /\ transactionSnapshotBalance' = buildProjection(transactionStore')
          /\ UNCHANGED <<issued, walk>>
    /\ transactionIndex' = transactionIndex + 1
    /\ UNCHANGED <<now, pc, pointsToSpend, totalNumberOfTransactions, ret, res,
                   req, search,
                   storeAtCall, balanceAtCall, runBudget, budgetAtCall,
                   wentNegative, nSpends>>

\* The transaction stamped with the timestamp of the entry read, not the clock
syntheticTransactionEntryTime(entry, pointsToRemove) ==
    Transaction(entry.payer, -1 * pointsToRemove, entry.timestamp)

\* { payer, points: -1 * pointsToRemove, timestamp: new Date() }
syntheticTransaction(entry, pointsToRemove) ==
    Transaction(entry.payer, -1 * pointsToRemove, Date(now))

\* History: what one iteration read (index, entry, payer's balance, points left,
\* clock) and whether it appended a transaction
Visit(entry, balance, appended) ==
    [index |-> transactionIndex, entry |-> entry, balance |-> balance,
     left |-> pointsLeft, at |-> now, appended |-> appended]

\* The loop body that clamps by the balance the payer had when the call began
SpendPointsStepStaleBalance ==
    /\ pc = "spend"
    /\ LoopContinues
    /\ LET entry == transactionStore[transactionIndex + 1]
           balance == Lookup(balanceAtCall, entry.payer)
           pointsToRemove == PointsToRemove(entry.points, pointsLeft, balance)
           transaction == syntheticTransaction(entry, pointsToRemove)
       IN /\ walk' = Append(walk, Visit(entry, balance, balance > 0))
          /\ IF balance <= 0
             THEN UNCHANGED <<transactionStore, transactionSnapshotBalance, pointsLeft,
                              issued>>
             ELSE /\ pointsLeft' = pointsLeft - pointsToRemove
                  /\ add(<<transaction>>)
                  /\ issued' = Append(issued, transaction)
    /\ transactionIndex' = transactionIndex + 1
    /\ UNCHANGED <<now, pc, pointsToSpend, totalNumberOfTransactions, ret, res,
                   req, search,
                   storeAtCall, balanceAtCall, runBudget, budgetAtCall,
                   wentNegative, nSpends>>

\* One iteration of the while loop of spendPoints
SpendPointsStep ==
    /\ pc = "spend"
    /\ LoopContinues
    /\ LET entry == transactionStore[transactionIndex + 1]
           balance == Lookup(transactionSnapshotBalance, entry.payer)
           pointsToRemove == PointsToRemove(entry.points, pointsLeft, balance)
           transaction == syntheticTransaction(entry, pointsToRemove)
       IN /\ walk' = Append(walk, Visit(entry, balance, balance > 0))
          /\ IF balance <= 0
             THEN UNCHANGED <<transactionStore, transactionSnapshotBalance, pointsLeft,
                              issued>>
             ELSE /\ pointsLeft' = pointsLeft - pointsToRemove
                  /\ add(<<transaction>>)
                  /\ issued' = Append(issued, transaction)
    /\ transactionIndex' = transactionIndex + 1
    /\ UNCHANGED <<now, pc, pointsToSpend, totalNumberOfTransactions, ret, res,
                   req, search,
                   storeAtCall, balanceAtCall, runBudget, budgetAtCall,
                   wentNegative, nSpends>>

\* After the loop: the projection of the entries from the captured length on,
\* as the list of its entries
SpendPointsResult ==
    buildProjectionFromIndex(transactionStore, totalNumberOfTransactions)

SpendPointsReturn ==
    /\ pc = "spend"
    /\ ~LoopContinues
    /\ pc' = "idle"
    /\ ret' = Returned("spendPoints", SpendPointsResult)
    /\ runBudget' = IF runBudget < 0 THEN runBudget
                    ELSE Max(0, runBudget - pointsToSpend.v)
    /\ UNCHANGED <<transactionStore, transactionSnapshotBalance, now, spendLocals,
                   storeAtCall, balanceAtCall, issued, walk, budgetAtCall, wentNegative,
                   nSpends>>

\* showPayerPoints(): the cached projection
ShowPayerPoints ==
    /\ pc = "idle"
    /\ ret' = Returned("showPayerPoints", transactionSnapshotBalance)
    /\ UNCHANGED <<transactionStore, transactionSnapshotBalance, now, pc, spendLocals,
                   history, nSpends>>

\* Time passes
Tick(limit) ==
    /\ now < limit
    /\ now' = now + 1
    /\ UNCHANGED <<transactionStore, transactionSnapshotBalance, pc, spendLocals,
                   ret, res, req, search, history, nSpends>>

----------------------------------------------------------------------------
(* The service driven directly: any add, spendPoints and showPayerPoints calls *)

NoResponse == [status |-> 0, error |-> "", text |-> "", data |-> <<>>]

NoRequest == [route |-> "", body |-> <<>>]

\* findIndexFromTimestamp has not been called
NoSearch ==
    [pc |-> "none", transactions |-> <<>>, timestamp |-> Date(0),
     lowBounds |-> 0, highBounds |-> 0, foundIndex |-> 0, result |-> 0]

InitAt(time) ==
    /\ transactionStore = <<>>
    /\ transactionSnapshotBalance = <<>>
    /\ now = time
    /\ pc = "idle"
    /\ pointsToSpend = Number(0)
    /\ totalNumberOfTransactions = 0
    /\ pointsLeft = 0
    /\ transactionIndex = 0
    /\ ret = Returned("none", <<>>)
    /\ res = NoResponse
    /\ req = NoRequest
    /\ search = NoSearch
    /\ storeAtCall = <<>>
    /\ balanceAtCall = <<>>
    /\ issued = <<>>
    /\ walk = <<>>
    /\ runBudget = 0
    /\ budgetAtCall = 0
    /\ wentNegative = FALSE
    /\ nSpends = 0

Init == InitAt(1)

Next ==
    \/ \E transactions \in Batches :
          /\ Len(transactionStore) + Len(transactions) <= MaxTxns
          /\ Add(transactions)
          /\ UNCHANGED <<res, req, search>>
    \/ \E amount \in SpendAmounts :
          /\ nSpends < MaxSpends
          /\ SpendPointsBegin(amount)
          /\ UNCHANGED <<res, req, search>>
    \/ SpendPointsStep
    \/ (SpendPointsReturn /\ UNCHANGED <<res, req, search>>)
    \/ (ShowPayerPoints /\ UNCHANGED <<res, req, search>>)
    \/ Tick(MaxTime)

Spec == Init /\ [][Next]_vars

----------------------------------------------------------------------------
(* The routes: JSON bodies, unmarshalTransaction, validateTransaction *)

\* A JSON value of a request body: a string, a number, or an absent field
JString(s) == [kind |-> "string", s |-> s, v |-> 0]

JNumber(v) == [kind |-> "number", s |-> "", v |-> v]

JUndefined == [kind |-> "undefined", s |-> "", v |-> 0]

JTrue == [kind |-> "boolean", s |-> "", v |-> 1]

JNull == [kind |-> "null", s |-> "", v |-> 0]

\* The number a JSON value is coerced to by isNaN, <, Math.min and -=:
\* true is 1, null and "" are 0, undefined and the other strings of the model are NaN
ToNumber(value) ==
    CASE value.kind = "number" -> Number(value.v)
      [] value.kind = "boolean" -> Number(value.v)
      [] value.kind = "null" -> Number(0)
      [] value.kind = "string" /\ value.s = "" -> Number(0)
      [] OTHER -> NaN

\* !value is false
Truthy(value) ==
    \/ (value.kind = "string" /\ value.s # "")
    \/ (value.kind = "number" /\ value.v # 0)
    \/ (value.kind = "boolean" /\ value.v # 0)

\* isNaN(value): the global isNaN coerces its argument
IsNaN(value) == ToNumber(value).nan

IsoFirst == "1970-01-01T00:00:00.001Z"

IsoSecond == "1970-01-01T00:00:00.002Z"

\* new Date(string)
NewDate(s) ==
    CASE s = IsoFirst -> Date(1)
      [] s = IsoSecond -> Date(2)
      [] OTHER -> InvalidDate

RawTransaction(payer, points, timestamp) ==
    [payer |-> payer, points |-> points, timestamp |-> timestamp]

\* The message validateTransaction throws for the unmarshalled payload, "" for none.
\* A Date object is truthy whether or not it is valid.
validateTransaction(payload) ==
    IF ~Truthy(payload.payer) THEN "Missing payer field"
    ELSE IF ~Truthy(payload.timestamp) THEN "Timestamp must be a valid date"
    ELSE IF ~Truthy(payload.points) \/ IsNaN(payload.points)
         THEN "Missing points field, must be a number"
    ELSE ""

\* The Transaction unmarshalTransaction returns when validateTransaction passes
unmarshalTransaction(payload) ==
    Transaction(payload.payer.s, payload.points.v, NewDate(payload.timestamp.s))

\* Object.keys(req.body).length for a body that is one object or an array
KeysLength(body) ==
    IF body.isArray THEN Len(body.items)
    ELSE Cardinality({f \in {"payer", "points", "timestamp"} :
                          body.items[1][f].kind # "undefined"})

successfulResponse(text, data) ==
    [status |-> 200, error |-> "", text |-> text, data |-> data]

failedResponse(errorMessage, statusCode) ==
    [status |-> statusCode, error |-> errorMessage, text |-> "", data |-> <<>>]

\* The index of the first item of the body that validateTransaction rejects, 0 for none
FirstInvalid(items) ==
    IF \E i \in DOMAIN items : validateTransaction(items[i]) # ""
    THEN CHOOSE i \in DOMAIN items :
            /\ validateTransaction(items[i]) # ""
            /\ \A j \in 1..(i - 1) : validateTransaction(items[j]) = ""
    ELSE 0

\* POST /transactions that hands each transaction to add as soon as it is unmarshalled
AddTransactionRouteEach(body) ==
    /\ pc = "idle"
    /\ IF KeysLength(body) = 0
       THEN /\ res' = failedResponse("Missing request payload", 400)
            /\ UNCHANGED <<transactionStore, transactionSnapshotBalance, now, pc,
                           spendLocals, ret, history, nSpends>>
       ELSE IF FirstInvalid(body.items) = 1
       THEN /\ res' = failedResponse(validateTransaction(body.items[1]), 400)
            /\ UNCHANGED <<transactionStore, transactionSnapshotBalance, now, pc,
                           spendLocals, ret, history, nSpends>>
       ELSE IF FirstInvalid(body.items) # 0
       THEN /\ Add([i \in 1..(FirstInvalid(body.items) - 1) |->
                        unmarshalTransaction(body.items[i])])
            /\ res' = failedResponse(
                         validateTransaction(body.items[FirstInvalid(body.items)]), 400)
       ELSE /\ Add([i \in DOMAIN body.items |-> unmarshalTransaction(body.items[i])])
            /\ res' = successfulResponse("Ok", <<>>)

\* POST /transactions whose add may start while spendPoints is in its loop
AddTransactionRouteInterleaved(body) ==
    IF KeysLength(body) = 0 \/ FirstInvalid(body.items) # 0
    THEN /\ pc = "idle"
         /\ res' = IF KeysLength(body) = 0
                   THEN failedResponse("Missing request payload", 400)
                   ELSE failedResponse(
                          validateTransaction(body.items[FirstInvalid(body.items)]), 400)
         /\ UNCHANGED <<transactionStore, transactionSnapshotBalance, now, pc,
                        spendLocals, ret, history, nSpends>>
    ELSE /\ AddInterleaved([i \in DOMAIN body.items |-> unmarshalTransaction(body.items[i])])
         /\ res' = successfulResponse("Ok", <<>>)

\* POST /transactions
AddTransactionRoute(body) ==
    /\ pc = "idle"
    /\ IF KeysLength(body) = 0
       THEN /\ res' = failedResponse("Missing request payload", 400)
            /\ UNCHANGED <<transactionStore, transactionSnapshotBalance, now, pc,
                           spendLocals, ret, history, nSpends>>
       ELSE IF FirstInvalid(body.items) # 0
       THEN /\ res' = failedResponse(
                         validateTransaction(body.items[FirstInvalid(body.items)]), 400)
            /\ UNCHANGED <<transactionStore, transactionSnapshotBalance, now, pc,
                           spendLocals, ret, history, nSpends>>
       ELSE /\ Add([i \in DOMAIN body.items |-> unmarshalTransaction(body.items[i])])
            /\ res' = successfulResponse("Ok", <<>>)

\* PUT /transactions that first rejects a falsy points field, 0 included
SpendPointsRouteMissingPoints(body) ==
    /\ pc = "idle"
    /\ IF body.points.kind = "undefined" /\ ~body.other
       THEN /\ res' = failedResponse("Missing request payload", 400)
            /\ UNCHANGED <<transactionStore, transactionSnapshotBalance, now, pc,
                           spendLocals, ret, history, nSpends>>
       ELSE IF ~Truthy(body.points)
       THEN /\ res' = failedResponse("Missing points field", 400)
            /\ UNCHANGED <<transactionStore, transactionSnapshotBalance, now, pc,
                           spendLocals, ret, history, nSpends>>
       ELSE IF IsNaN(body.points) \/ ToNumber(body.points).v < 0
       THEN /\ res' = failedResponse("Points field must be a valid positive number", 400)
            /\ UNCHANGED <<transactionStore, transactionSnapshotBalance, now, pc,
                           spendLocals, ret, history, nSpends>>
       ELSE /\ SpendPointsBegin(ToNumber(body.points))
            /\ res' = IF ret'.threw
                      THEN failedResponse("Points to spend must be a valid positive number", 500)
                      ELSE res

\* PUT /transactions up to the loop of spendPoints
SpendPointsRoute(body) ==
    /\ pc = "idle"
    /\ IF body.points.kind = "undefined" /\ ~body.other
       THEN /\ res' = failedResponse("Missing request payload", 400)
            /\ UNCHANGED <<transactionStore, transactionSnapshotBalance, now, pc,
                           spendLocals, ret, history, nSpends>>
       ELSE IF IsNaN(body.points) \/ ToNumber(body.points).v < 0
       THEN /\ res' = failedResponse("Points field must be a valid positive number", 400)
            /\ UNCHANGED <<transactionStore, transactionSnapshotBalance, now, pc,
                           spendLocals, ret, history, nSpends>>
       ELSE /\ SpendPointsBegin(ToNumber(body.points))
            /\ res' = IF ret'.threw
                      THEN failedResponse("Points to spend must be a valid positive number", 500)
                      ELSE res

\* PUT /transactions once spendPoints has returned
SpendPointsRouteReturn ==
    /\ SpendPointsReturn
    /\ res' = successfulResponse("", ret'.value)
    /\ UNCHANGED <<req, search>>

\* GET /transactions
PointBalanceRoute ==
    /\ ShowPayerPoints
    /\ res' = successfulResponse("", ret'.value)
    /\ UNCHANGED search

----------------------------------------------------------------------------
(* The program behind its routes: requests with parseable or missing timestamps *)

RawPayers == {JString("DANNON"), JString("UNILEVER"), JUndefined}

RawPoints == {JNumber(-1), JNumber(2), JNumber(0), JUndefined, JString("abc")}

RawTimestamps == {JString(IsoFirst), JString(IsoSecond), JUndefined}

RawTransactions ==
    {RawTransaction(p, n, t) : p \in RawPayers, n \in RawPoints, t \in RawTimestamps}

OneObject(raw) == [isArray |-> FALSE, items |-> <<raw>>]

Array(items) == [isArray |-> TRUE, items |-> items]

AddBodies ==
    {OneObject(raw) : raw \in RawTransactions}
    \cup {Array(<<>>)}
    \cup {Array(<<raw, RawTransaction(JString("UNILEVER"), JNumber(2), JString(IsoFirst))>>) :
            raw \in RawTransactions}

SpendBody(points, other) == [points |-> points, other |-> other]

SpendBodies ==
    {SpendBody(n, FALSE) : n \in {JNumber(-1), JNumber(0), JNumber(1), JNumber(3),
                                  JString("abc"), JUndefined}}
    \cup {SpendBody(JUndefined, TRUE)}

\* The request a route has just handled, where the requests are recorded
Request(record, route, body) ==
    IF record THEN [route |-> route, body |-> body] ELSE req

RouteNext(addBodies, spendBodies, maxLedger, maxSpends, record) ==
    \/ \E body \in addBodies :
          /\ Len(transactionStore) + Len(body.items) <= maxLedger
          /\ AddTransactionRoute(body)
          /\ req' = Request(record, "POST", body)
          /\ UNCHANGED search
    \/ \E body \in spendBodies :
          /\ nSpends < maxSpends
          /\ SpendPointsRoute(body)
          /\ req' = Request(record, "PUT", body)
          /\ UNCHANGED search
    \/ SpendPointsStep
    \/ SpendPointsRouteReturn
    \/ (PointBalanceRoute /\ req' = Request(record, "GET", <<>>))
    \/ Tick(MaxTime)

RouteSpends == 1

RouteSpec == Init /\ [][RouteNext(AddBodies, SpendBodies, MaxTxns, RouteSpends, FALSE)]_vars

----------------------------------------------------------------------------
(* The program behind its routes, each request recorded *)

RequestLedger == 3
RequestSpends == 1

ValidRaw == RawTransaction(JString("UNILEVER"), JNumber(2), JString(IsoFirst))

\* A payer, points and timestamp that pass validateTransaction, or one of the
\* values it rejects in their place
RequestRaws ==
    {RawTransaction(p, n, t) :
        p \in {JString("DANNON"), JUndefined},
        n \in {JNumber(2), JNumber(-1), JNumber(0), JUndefined, JString("abc")},
        t \in {JString(IsoSecond), JUndefined}}

RequestAddBodies ==
    {OneObject(raw) : raw \in RequestRaws}
    \cup {Array(<<>>)}
    \cup {Array(<<ValidRaw, raw>>) : raw \in RequestRaws}
    \cup {Array(<<raw, ValidRaw>>) : raw \in RequestRaws}

RequestSpendBodies ==
    SpendBodies \cup {SpendBody(JTrue, FALSE), SpendBody(JNull, FALSE)}

RequestSpec ==
    Init /\ [][RouteNext(RequestAddBodies, RequestSpendBodies,
                         RequestLedger, RequestSpends, TRUE)]_vars

----------------------------------------------------------------------------
(* The program behind its routes: requests whose timestamp may not parse *)

GarbageLedger == 3
GarbageSpends == 1

GarbageBodies ==
    {OneObject(RawTransaction(p, JNumber(2), t)) :
        p \in {JString("DANNON"), JString("UNILEVER")},
        t \in {JString(IsoFirst), JString(IsoSecond), JString("yesterday")}}

GarbageSpendBodies == {SpendBody(JNumber(1), FALSE), SpendBody(JNumber(-1), FALSE)}

InvalidDateSpec ==
    Init /\ [][RouteNext(GarbageBodies, GarbageSpendBodies, GarbageLedger, GarbageSpends, FALSE)]_vars

----------------------------------------------------------------------------
(* The service driven directly with transactions no route has validated *)

UncheckedLedger == 2
UncheckedSpends == 1

\* The property key a missing (undefined) payer is coerced to
Undefined == "undefined"

UncheckedTransactions ==
    {Transaction(p, 2, t) : p \in {"DANNON", Undefined},
                            t \in {Date(1), Date(2), InvalidDate}}

UncheckedBatches ==
    {<<t>> : t \in UncheckedTransactions}
    \cup {<<Transaction("UNILEVER", 2, Date(2)), t>> : t \in UncheckedTransactions}

UncheckedNext ==
    \/ \E transactions \in UncheckedBatches :
          /\ Len(transactionStore) + Len(transactions) <= UncheckedLedger
          /\ Add(transactions)
          /\ UNCHANGED <<res, req, search>>
    \/ \E amount \in {Number(1), Number(3)} :
          /\ nSpends < UncheckedSpends
          /\ SpendPointsBegin(amount)
          /\ UNCHANGED <<res, req, search>>
    \/ SpendPointsStep
    \/ (SpendPointsReturn /\ UNCHANGED <<res, req, search>>)
    \/ (ShowPayerPoints /\ UNCHANGED <<res, req, search>>)
    \/ Tick(MaxTime)

UncheckedSpec == Init /\ [][UncheckedNext]_vars

----------------------------------------------------------------------------
(* findIndexFromTimestamp on sorted ledgers *)

SearchLen == 4
SearchTimes == 3

\* The ledgers of up to SearchLen entries sorted ascending by timestamp,
\* duplicates included
SortedLedgers ==
    UNION {{[i \in 1..n |-> Transaction("DANNON", 2, Date(f[i]))] :
               f \in {g \in [1..n -> 1..SearchTimes] :
                          \A i \in 1..(n - 1) : g[i] <= g[i + 1]}} :
           n \in 0..SearchLen}

\* Timestamps before, among and after those of the ledgers
SearchTimestamps == {Date(ms) : ms \in 0..(SearchTimes + 1)}

\* a.getTime() < b.getTime(): false when either is NaN
LessThan(a, b) == a.valid /\ b.valid /\ a.ms < b.ms

\* findIndexFromTimestamp(transactions, timestamp) up to its loop
FindIndexFromTimestampBegin(transactions, timestamp) ==
    /\ search.pc = "none"
    /\ search' = [pc |-> "loop", transactions |-> transactions, timestamp |-> timestamp,
                  lowBounds |-> 0, highBounds |-> Len(transactions) - 1,
                  foundIndex |-> -1, result |-> -1]

\* The loop iteration whose lower bound does not pass the mid point
FindIndexFromTimestampStepSlow ==
    /\ search.pc = "loop"
    /\ search.lowBounds <= search.highBounds
    /\ LET foundIndex == (search.lowBounds + search.highBounds) \div 2
           found == search.transactions[foundIndex + 1].timestamp
       IN search' =
            IF LessThan(found, search.timestamp)
            THEN [search EXCEPT !.foundIndex = foundIndex, !.lowBounds = foundIndex]
            ELSE IF LessThan(search.timestamp, found)
            THEN [search EXCEPT !.foundIndex = foundIndex, !.highBounds = foundIndex - 1]
            ELSE [search EXCEPT !.foundIndex = foundIndex, !.result = foundIndex,
                                !.pc = "done"]

\* One iteration of the while loop of findIndexFromTimestamp
FindIndexFromTimestampStep ==
    /\ search.pc = "loop"
    /\ search.lowBounds <= search.highBounds
    /\ LET foundIndex == (search.lowBounds + search.highBounds) \div 2
           found == search.transactions[foundIndex + 1].timestamp
       IN search' =
            IF LessThan(found, search.timestamp)
            THEN [search EXCEPT !.foundIndex = foundIndex, !.lowBounds = foundIndex + 1]
            ELSE IF LessThan(search.timestamp, found)
            THEN [search EXCEPT !.foundIndex = foundIndex, !.highBounds = foundIndex - 1]
            ELSE [search EXCEPT !.foundIndex = foundIndex, !.result = foundIndex,
                                !.pc = "done"]

\* The loop has ended without a match: return -1
FindIndexFromTimestampMiss ==
    /\ search.pc = "loop"
    /\ search.lowBounds > search.highBounds
    /\ search' = [search EXCEPT !.result = -1, !.pc = "done"]

\* Everything but the search
service ==
    <<transactionStore, transactionSnapshotBalance, now, pc, spendLocals,
      ret, res, req, history, nSpends>>

SearchNext ==
    \/ \E transactions \in SortedLedgers, timestamp \in SearchTimestamps :
          FindIndexFromTimestampBegin(transactions, timestamp) /\ UNCHANGED service
    \/ (FindIndexFromTimestampStep /\ UNCHANGED service)
    \/ (FindIndexFromTimestampMiss /\ UNCHANGED service)

SearchSpec == Init /\ [][SearchNext]_vars /\ WF_vars(SearchNext)

----------------------------------------------------------------------------
(* buildProjectionFromIndex on the ledgers add builds *)

ProjectionLedger == 3

\* Indexes below 0, inside the store, at its length and beyond it
ProjectionIndexes == (0 - 2)..(ProjectionLedger + 1)

\* this.buildProjectionFromIndex(index)
BuildProjectionFromIndex(index) ==
    /\ pc = "idle"
    /\ ret' = [op |-> "buildProjectionFromIndex", threw |-> FALSE, index |-> index,
               value |-> buildProjectionFromIndex(transactionStore, index)]
    /\ UNCHANGED <<transactionStore, transactionSnapshotBalance, now, pc, spendLocals,
                   history, nSpends>>

ProjectionNext ==
    \/ \E transactions \in Batches :
          /\ Len(transactionStore) + Len(transactions) <= ProjectionLedger
          /\ Add(transactions)
          /\ UNCHANGED <<res, req, search>>
    \/ \E index \in ProjectionIndexes :
          /\ BuildProjectionFromIndex(index)
          /\ UNCHANGED <<res, req, search>>

ProjectionSpec == Init /\ [][ProjectionNext]_vars

----------------------------------------------------------------------------
(* The worked example: the five mock transactions, then spends of 5000 *)

ScenarioSpends == 5

\* Hours since 2020-10-31T00:00:00Z, the unit of the example's clock
Hour(day, hour) == 24 * day + hour

mockTransactions ==
    << Transaction("DANNON", 1000, Date(Hour(2, 14))),
       Transaction("UNILEVER", 200, Date(Hour(0, 11))),
       Transaction("DANNON", -200, Date(Hour(0, 15))),
       Transaction("MILLER COORS", 10000, Date(Hour(1, 14))),
       Transaction("DANNON", 300, Date(Hour(0, 10))) >>

ScenarioInit == InitAt(Hour(2, 15))

ScenarioNext ==
    \/ (transactionStore = <<>> /\ Add(mockTransactions) /\ UNCHANGED <<res, req, search>>)
    \/ (nSpends < ScenarioSpends /\ SpendPointsBegin(Number(5000)) /\ UNCHANGED <<res, req, search>>)
    \/ SpendPointsStep
    \/ (SpendPointsReturn /\ UNCHANGED <<res, req, search>>)
    \/ (ShowPayerPoints /\ UNCHANGED <<res, req, search>>)
    \/ Tick(Hour(2, 17))

ScenarioSpec == ScenarioInit /\ [][ScenarioNext]_vars

----------------------------------------------------------------------------
(* What the claims are stated with *)

PayersOf(store) == {store[i].payer : i \in DOMAIN store}

\* The sum of the points of payer's transactions in store
RECURSIVE LedgerSum(_, _)
LedgerSum(store, payer) ==
    IF store = <<>> THEN 0
    ELSE (IF Head(store).payer = payer THEN Head(store).points ELSE 0)
         + LedgerSum(Tail(store), payer)

\* The balance a projection lists for payer, 0 when it lists none
BalanceOf(projection, payer) ==
    IF HasKey(projection, payer) THEN Lookup(projection, payer) ELSE 0

Entries(projection) ==
    {<<projection[i].payer, projection[i].points>> : i \in DOMAIN projection}

NoDuplicateKeys(projection) ==
    \A i, j \in DOMAIN projection :
        projection[i].payer = projection[j].payer => i = j

Count(store, transaction) ==
    Cardinality({i \in DOMAIN store : store[i] = transaction})

\* Every transaction of old is in new, as many times at least
KeepsAll(old, new) ==
    \A i \in DOMAIN old : Count(new, old[i]) >= Count(old, old[i])

\* A spendPoints call has returned normally and nothing was called since
SpendReturned ==
    /\ pc = "idle"
    /\ ret.op = "spendPoints"
    /\ ~ret.threw

\* The sum of the strictly positive balances of a projection
RECURSIVE Spendable(_)
Spendable(projection) ==
    IF projection = <<>> THEN 0
    ELSE Max(Head(projection).points, 0) + Spendable(Tail(projection))

----------------------------------------------------------------------------
(* C1 *)

\* C1: in every reachable state the cached projection lists exactly the payers
\* that have a transaction in the store, each once, with the sum of the points
\* of that payer's transactions, synthetic ones included.
C1_ProjectionCorrect ==
    /\ NoDuplicateKeys(transactionSnapshotBalance)
    /\ Entries(transactionSnapshotBalance) =
          {<<p, LedgerSum(transactionStore, p)>> : p \in PayersOf(transactionStore)}

\* A spend has appended synthetic transactions and the projection shows them
C1_Witness ==
    /\ SpendReturned
    /\ issued # <<>>
    /\ \E i \in DOMAIN transactionSnapshotBalance :
          transactionSnapshotBalance[i].points # BalanceOf(balanceAtCall,
                                                   transactionSnapshotBalance[i].payer)

----------------------------------------------------------------------------
(* C3 *)

\* C3: during and after a spendPoints call, every payer whose balance was >= 0
\* when the call started has a balance >= 0, after each debit and at return.
C3_SpendKeepsNonNegative ==
    \A i \in DOMAIN balanceAtCall :
        balanceAtCall[i].points >= 0 =>
            BalanceOf(transactionSnapshotBalance, balanceAtCall[i].payer) >= 0

\* A second consecutive spend is under way and has taken a payer's balance to 0
\* where the entry read and the amount left would both have allowed more
C3_Witness ==
    /\ pc = "spend"
    /\ nSpends >= 2
    /\ issued # <<>>
    /\ \E i \in DOMAIN balanceAtCall :
          /\ balanceAtCall[i].points > 0
          /\ BalanceOf(transactionSnapshotBalance, balanceAtCall[i].payer) = 0
          /\ balanceAtCall[i].points < issued[Len(issued)].points * (-1) + pointsLeft
          /\ issued[Len(issued)].payer = balanceAtCall[i].payer
          /\ \E k \in DOMAIN storeAtCall :
                /\ storeAtCall[k].payer = balanceAtCall[i].payer
                /\ storeAtCall[k].points > balanceAtCall[i].points

----------------------------------------------------------------------------
(* C4 *)

\* C4: when spendPoints(amount) returns, the total removed (the sum over the
\* payers of balance before minus balance after) equals min(amount, S), S the
\* sum of the strictly positive balances at call start.
C4_Conservation ==
    SpendReturned =>
        SumPoints(balanceAtCall) - SumPoints(transactionSnapshotBalance)
            = Min(pointsToSpend.v, Spendable(balanceAtCall))

----------------------------------------------------------------------------
(* C5 *)

\* C5: every step keeps every transaction already in the store, unchanged and
\* as many times; add(t1..tk) grows the store by exactly k entries, a step of
\* spendPoints by the synthetic transaction it builds or not at all, and
\* showPayerPoints (like the rest of spendPoints) leaves the store as it is.
C5_AppendOnlyStep ==
    LET isAdd == pc = "idle" /\ pc' = "idle" /\ ret'.op = "add" /\ now' = now
        isSpendStep == pc = "spend" /\ pc' = "spend"
    IN  /\ KeepsAll(transactionStore, transactionStore')
        /\ isAdd =>
              \E b \in Batches :
                  /\ Len(transactionStore') = Len(transactionStore) + Len(b)
                  /\ KeepsAll(transactionStore \o b, transactionStore')
        /\ isSpendStep =>
              /\ Len(transactionStore') - Len(transactionStore) = Len(issued') - Len(issued)
              /\ Len(issued') - Len(issued) \in {0, 1}
              /\ KeepsAll(transactionStore \o SubSeq(issued', Len(issued) + 1, Len(issued')),
                          transactionStore')
        /\ (~isAdd /\ ~isSpendStep) => transactionStore' = transactionStore

C5_AppendOnly == [][C5_AppendOnlyStep]_vars

\* A spend has appended to a store that add had filled, and the old entries are there
C5_Witness ==
    /\ SpendReturned
    /\ Len(storeAtCall) >= 2
    /\ Len(transactionStore) > Len(storeAtCall)

----------------------------------------------------------------------------
(* C7 *)

\* The per-payer sums of the transactions built during the call
IssuedEntries ==
    {<<p, LedgerSum(issued, p)>> : p \in PayersOf(issued)}

\* C7: the list spendPoints returns has one entry per payer that received a
\* synthetic transaction during the call and none for any other payer, each
\* with the sum of the points of exactly those synthetic transactions.
C7_SpendResult ==
    SpendReturned =>
        /\ NoDuplicateKeys(ret.value)
        /\ Entries(ret.value) = IssuedEntries

----------------------------------------------------------------------------
(* C9 *)

AllZero(projection) == \A i \in DOMAIN projection : projection[i].points = 0

\* C9: starting from a ledger whose balances are all >= 0, once consecutive
\* spendPoints calls have requested at least the sum of the balances every
\* listed balance is exactly 0, and a further call returns an empty list and
\* appends nothing.
C9_OverdraftDrains ==
    (pc = "idle" /\ runBudget = 0) =>
        /\ AllZero(transactionSnapshotBalance)
        /\ PayersOf(transactionStore) =
              {transactionSnapshotBalance[i].payer : i \in DOMAIN transactionSnapshotBalance}
        /\ (SpendReturned /\ budgetAtCall = 0) =>
              /\ ret.value = <<>>
              /\ transactionStore = storeAtCall

----------------------------------------------------------------------------
(* C10 *)

\* C10: spendPoints(amount) with amount >= 0 never throws, whatever the ledger
\* (empty, or worth less than the request); it returns a list, which is empty
\* when nothing can be spent (amount 0, or no payer with a positive balance).
C10_PartialSpendNoError ==
    /\ (ret.op = "spendPoints" /\ ~pointsToSpend.nan /\ pointsToSpend.v >= 0)
          => ~ret.threw
    /\ (pc = "spend" /\ LoopContinues)
          => HasKey(transactionSnapshotBalance,
                    transactionStore[transactionIndex + 1].payer)
    /\ (SpendReturned /\ (pointsToSpend.v = 0 \/ Spendable(balanceAtCall) = 0))
          => ret.value = <<>>

\* A request for more than the ledger is worth has returned what could be taken
C10_Witness ==
    /\ SpendReturned
    /\ pointsToSpend.v > Spendable(balanceAtCall)
    /\ Spendable(balanceAtCall) > 0
    /\ pointsLeft > 0
    /\ ret.value # <<>>

----------------------------------------------------------------------------
(* C2 *)

\* C2 as stated: in every state reachable through the add route and
\* spendPoints, every payer's balance in the projection is >= 0.
C2_NeverNegative == NoneNegative(transactionSnapshotBalance)

\* C2, amended: as long as no accepted append has itself left a payer's balance
\* below 0, every payer's balance in the projection is >= 0 in every state
\* reachable through the add route and spendPoints; a spend never takes a
\* balance below 0.
C2_NeverNegativeBySpend ==
    ~wentNegative => NoneNegative(transactionSnapshotBalance)

\* The route accepted a debit that its payer could afford, and a spend then
\* took that payer's balance
C2_Witness ==
    /\ SpendReturned
    /\ res.status = 200
    /\ ~wentNegative
    /\ issued # <<>>
    /\ \E k \in DOMAIN storeAtCall :
          /\ storeAtCall[k].points < 0
          /\ issued[1].payer = storeAtCall[k].payer

----------------------------------------------------------------------------
(* C6 *)

\* C6: after every add, those inside the spendPoints loop included, the store
\* is sorted by timestamp in non-decreasing order: no entry is followed,
\* anywhere later in the store, by one with an earlier timestamp.
C6_Sorted ==
    \A i, j \in DOMAIN transactionStore :
        (/\ i < j
         /\ transactionStore[i].timestamp.valid
         /\ transactionStore[j].timestamp.valid)
            => transactionStore[i].timestamp.ms <= transactionStore[j].timestamp.ms

----------------------------------------------------------------------------
(* C8 *)

Entry(payer, points) == [payer |-> payer, points |-> points]

\* C8: on a fresh service holding the five mock transactions added in one
\* call, a later spendPoints(5000) returns exactly DANNON -100, UNILEVER -200,
\* MILLER COORS -4700 and leaves DANNON 1000, UNILEVER 0, MILLER COORS 5300.
C8_WorkedSpend ==
    (SpendReturned /\ Len(storeAtCall) = Len(mockTransactions)) =>
        /\ ret.value = << Entry("DANNON", -100), Entry("UNILEVER", -200),
                          Entry("MILLER COORS", -4700) >>
        /\ SumPoints(ret.value) = -5000
        /\ NoDuplicateKeys(transactionSnapshotBalance)
        /\ Entries(transactionSnapshotBalance) =
              { <<"DANNON", 1000>>, <<"UNILEVER", 0>>, <<"MILLER COORS", 5300>> }

\* The first spend of 5000 on the five mock transactions has returned
C8_Witness ==
    /\ SpendReturned
    /\ Len(storeAtCall) = Len(mockTransactions)
    /\ Len(issued) = 4
    /\ pointsLeft = 0

\* The worked example of C9: four spends of 5000 on the mock ledger leave
\* every balance at 0
C9_WorkedOverdraft ==
    (pc = "idle" /\ nSpends >= 4 /\ Len(transactionStore) >= Len(mockTransactions)
       /\ runBudget = 0)
        => Entries(transactionSnapshotBalance) =
              { <<"DANNON", 0>>, <<"UNILEVER", 0>>, <<"MILLER COORS", 0>> }

----------------------------------------------------------------------------
(* C11 *)

----------------------------------------------------------------------------
(* C12 *)

\* C12: spendPoints(amount) with amount negative or NaN throws, and when it has
\* thrown the store and the cached projection are what they were before the call.
C12_InvalidAmountFailsClosed ==
    /\ (pc = "idle" /\ ret.op = "spendPoints"
          /\ (pointsToSpend.nan \/ pointsToSpend.v < 0)) => ret.threw
    /\ (pc = "spend" => ~(pointsToSpend.nan \/ pointsToSpend.v < 0))
    /\ (ret.op = "spendPoints" /\ ret.threw) =>
          /\ transactionStore = storeAtCall
          /\ transactionSnapshotBalance = balanceAtCall
          /\ issued = <<>>

\* A negative or NaN amount was refused on a ledger that had points to spend
C12_Witness ==
    /\ ret.op = "spendPoints"
    /\ ret.threw
    /\ (pointsToSpend.nan \/ pointsToSpend.v < 0)
    /\ Spendable(transactionSnapshotBalance) > 0
    /\ Len(transactionStore) >= 2

----------------------------------------------------------------------------
(* C13 *)

\* The body holds nothing, or an item that validateTransaction rejects
Rejected(body) ==
    \/ KeysLength(body) = 0
    \/ \E i \in DOMAIN body.items : validateTransaction(body.items[i]) # ""

\* C13: a POST (one object or an array) with an entry that fails validation is
\* answered 400 without add being called: store, projection and the service's
\* last call are unchanged, even when an earlier entry of the array was valid;
\* a POST whose entries are all valid is answered 200 "Ok" after one add that
\* appends them all.
C13_BatchStep ==
    LET body == req'.body
        isPost == req'.route = "POST" /\ now' = now
    IN  isPost =>
          IF Rejected(body)
          THEN /\ res'.status = 400
               /\ res'.error # ""
               /\ UNCHANGED <<transactionStore, transactionSnapshotBalance, ret>>
          ELSE /\ res' = successfulResponse("Ok", <<>>)
               /\ ret' = Returned("add", <<>>)
               /\ Len(transactionStore') = Len(transactionStore) + Len(body.items)
               /\ KeepsAll(transactionStore
                             \o [i \in DOMAIN body.items |-> unmarshalTransaction(body.items[i])],
                           transactionStore')

----------------------------------------------------------------------------
(* C14 *)

\* C14: add called directly with a batch holding an entry without payer or
\* with an unparseable timestamp fails and appends none of the batch, so no
\* such entry is ever in the store and the last add never returned normally
\* with one appended.
C14_CoreValidates ==
    \A i \in DOMAIN transactionStore :
        /\ transactionStore[i].payer # Undefined
        /\ transactionStore[i].timestamp.valid

----------------------------------------------------------------------------
(* C15 *)

\* C15: an entry whose timestamp is present but does not parse as a date is
\* refused by the add route, so every transaction in the store has a valid
\* timestamp and the route never answers 200 having stored one that has not.
C15_TimestampsParse ==
    /\ \A i \in DOMAIN transactionStore : transactionStore[i].timestamp.valid
    /\ \A i \in DOMAIN storeAtCall : storeAtCall[i].timestamp.valid

----------------------------------------------------------------------------
(* C16 *)

\* The five mock transactions are in the store and nothing else
OnlyMockAdded ==
    /\ Len(transactionStore) = Len(mockTransactions)
    /\ KeepsAll(mockTransactions, transactionStore)

\* C16 as stated: after the five mock transactions are appended in one call
\* the projection reads DANNON 1000, UNILEVER 200, MILLER COORS 10000.
C16_WorkedAppendAsStated ==
    OnlyMockAdded =>
        Entries(transactionSnapshotBalance) =
            { <<"DANNON", 1000>>, <<"UNILEVER", 200>>, <<"MILLER COORS", 10000>> }

\* C16, amended: after the five mock transactions are appended in one call the
\* projection, cached and as showPayerPoints returns it, reads DANNON 1100
\* (1000 - 200 + 300), UNILEVER 200, MILLER COORS 10000.
C16_WorkedAppend ==
    OnlyMockAdded =>
        /\ NoDuplicateKeys(transactionSnapshotBalance)
        /\ Entries(transactionSnapshotBalance) =
              { <<"DANNON", 1100>>, <<"UNILEVER", 200>>, <<"MILLER COORS", 10000>> }
        /\ (pc = "idle" /\ ret.op = "showPayerPoints") =>
              ret.value = transactionSnapshotBalance

\* showPayerPoints has been called on the five mock transactions
C16_Witness ==
    /\ OnlyMockAdded
    /\ pc = "idle"
    /\ ret.op = "showPayerPoints"
    /\ Len(ret.value) = 3

----------------------------------------------------------------------------
(* C17 *)

\* The index findIndexFromTimestamp returned is right for its arguments
SearchCorrect ==
    LET transactions == search.transactions
        present == \E i \in DOMAIN transactions :
                       transactions[i].timestamp = search.timestamp
    IN  search.pc = "done" =>
          IF present
          THEN /\ search.result \in 0..(Len(transactions) - 1)
               /\ transactions[search.result + 1].timestamp = search.timestamp
          ELSE search.result = -1

\* C17: on every ledger sorted ascending by timestamp (empty, of one entry,
\* with duplicate timestamps) and for every timestamp, findIndexFromTimestamp
\* returns an index holding that timestamp when some entry has it and -1 when
\* none has, and every call terminates.
C17_BinarySearch ==
    /\ []SearchCorrect
    /\ (search.pc = "loop") ~> (search.pc = "done")

\* A timestamp that occurs twice was found after the bounds had moved
C17_Witness ==
    /\ search.pc = "done"
    /\ search.result >= 0
    /\ search.lowBounds + search.highBounds > Len(search.transactions) - 1
    /\ \E i, j \in DOMAIN search.transactions :
          /\ i # j
          /\ search.transactions[i].timestamp = search.timestamp
          /\ search.transactions[j].timestamp = search.timestamp

----------------------------------------------------------------------------
(* C18 *)

\* The positions of store, counted from 0, that are >= index
PositionsFrom(store, index) == {k \in DOMAIN store : k - 1 >= index}

\* The sum of the points of payer's entries at the positions of store from k on
\* that are >= index
RECURSIVE SumFrom(_, _, _, _)
SumFrom(store, payer, k, index) ==
    IF k > Len(store) THEN 0
    ELSE (IF k - 1 >= index /\ store[k].payer = payer THEN store[k].points ELSE 0)
         + SumFrom(store, payer, k + 1, index)

\* C18: buildProjectionFromIndex(i) returns, for each payer with an entry at a
\* position >= i of the store and for no other, the sum of the points of those
\* entries; i < 0 gives what i = 0 gives, the full projection; i >= length
\* gives the empty mapping; the store and the cached projection are unchanged.
C18_ProjectionFromStep ==
    LET index == ret'.index
        value == ret'.value
    IN  ret'.op = "buildProjectionFromIndex" =>
          /\ UNCHANGED <<transactionStore, transactionSnapshotBalance>>
          /\ NoDuplicateKeys(value)
          /\ Entries(value) =
                {<<transactionStore[k].payer,
                   SumFrom(transactionStore, transactionStore[k].payer, 1, index)>> :
                     k \in PositionsFrom(transactionStore, index)}
          /\ (index <= 0 => value = transactionSnapshotBalance)
          /\ (index >= Len(transactionStore) => value = <<>>)

C18_ProjectionFrom == [][C18_ProjectionFromStep]_vars

\* The projection of a proper suffix of the store differs from the full one
C18_Witness ==
    /\ ret.op = "buildProjectionFromIndex"
    /\ ret.index > 0
    /\ ret.index < Len(transactionStore)
    /\ ret.value # <<>>
    /\ ret.value # transactionSnapshotBalance

\* The projection from an index below 0 on a store of several entries
C18_WitnessBelowZero ==
    /\ ret.op = "buildProjectionFromIndex"
    /\ ret.index < 0
    /\ Len(transactionStore) >= 2
    /\ ret.value = transactionSnapshotBalance

----------------------------------------------------------------------------
(* C19 *)

\* C19: a handler's call runs to completion before another request is
\* handled: from the moment spendPoints has started until it returns, no other
\* request is taken up, and the store changes only by the debit that the
\* running call computes from the balance it reads in that same step.
C19_AtomicStep ==
    pc = "spend" =>
        /\ req' = req
        /\ nSpends' = nSpends
        /\ storeAtCall' = storeAtCall
        /\ pointsToSpend' = pointsToSpend
        /\ totalNumberOfTransactions' = totalNumberOfTransactions
        /\ \/ UNCHANGED <<transactionStore, transactionSnapshotBalance, issued>>
           \/ LET entry == transactionStore[transactionIndex + 1]
                  balance == Lookup(transactionSnapshotBalance, entry.payer)
                  debit == issued'[Len(issued')]
              IN  /\ pc' = "spend"
                  /\ issued' = Append(issued, debit)
                  /\ debit.payer = entry.payer
                  /\ debit.points = 0 - Min(Min(entry.points, pointsLeft), balance)
                  /\ Len(transactionStore') = Len(transactionStore) + 1
                  /\ KeepsAll(transactionStore \o <<debit>>, transactionStore')
                  /\ BalanceOf(transactionSnapshotBalance', debit.payer)
                        = balance + debit.points

----------------------------------------------------------------------------
(* C20 *)

\* What the spend route has answered to the PUT in req, by what the claim
\* requires for its points value
SpendRouteAnswer(points) ==
    IF points.kind = "number" /\ points.v >= 0
    THEN /\ res.status = 200
         /\ res.error = ""
         /\ ret.op = "spendPoints"
         /\ pointsToSpend = Number(points.v)
    ELSE /\ res.status = 400
         /\ res.error # ""
         /\ (ret.op = "spendPoints" => pointsToSpend # ToNumber(points))

\* C20: a PUT with no payload, or whose points is negative or not a number, is
\* answered 400 with an error message and spendPoints is not called for it; a
\* PUT with a non-negative number is answered 200 without error after one
\* spendPoints call with that number.
C20_SpendRouteValidation ==
    (pc = "idle" /\ req.route = "PUT") => SpendRouteAnswer(req.body.points)

\* The same for the requests whose points field is a number, a non-numeric
\* string or missing
C20_ForNumbersAndStrings ==
    (pc = "idle" /\ req.route = "PUT"
       /\ req.body.points.kind \in {"number", "string", "undefined"})
        => SpendRouteAnswer(req.body.points)

----------------------------------------------------------------------------
(* C21 *)

\* The iterations of the current/last spendPoints call that appended a
\* transaction; the k-th of them appended issued[k]
AppendedVisits == SelectSeq(walk, LAMBDA visit : visit.appended)

\* C21, as stated: every transaction spendPoints appended has points <= 0,
\* whatever the ledger holds
C21_SyntheticDebits ==
    \A i \in DOMAIN issued : issued[i].points <= 0

\* C21: every transaction spendPoints appended carries the clock of the moment
\* it was built; it has points <= 0 when the entry read has points >= 0, and
\* when the entry read is negative it gives that entry's points back: its
\* points are minus the entry's, above 0
C21_SyntheticSign ==
    /\ Len(AppendedVisits) = Len(issued)
    /\ \A k \in DOMAIN issued :
          LET visit == AppendedVisits[k]
          IN /\ issued[k].payer = visit.entry.payer
             /\ issued[k].timestamp = Date(visit.at)
             /\ visit.entry.points >= 0 => issued[k].points <= 0
             /\ visit.entry.points < 0 => /\ issued[k].points = -1 * visit.entry.points
                                          /\ issued[k].points > 0

\* A spend returned after reading a negative entry of a payer in credit, later
\* than that entry's own timestamp
C21_Witness ==
    /\ SpendReturned
    /\ \E k \in DOMAIN issued :
          /\ AppendedVisits[k].entry.points < 0
          /\ issued[k].points > 0
          /\ AppendedVisits[k].entry.timestamp # issued[k].timestamp

----------------------------------------------------------------------------
(* C22 *)

\* The transactions the call appended before its k-th iteration
IssuedBefore(k) ==
    SubSeq(issued, 1, Len(SelectSeq(SubSeq(walk, 1, k - 1), LAMBDA visit : visit.appended)))

\* C22: the k-th iteration of a spendPoints call reads the payer's balance as
\* it is at that moment (the balance at call start plus the transactions the
\* call already appended for that payer) and the points left as they are at
\* that moment (the amount minus what was already taken); when that balance is
\* above 0 it appends exactly one transaction, of points
\* -min(entry points, points left, balance), and the points left go down by
\* the same min.
C22_PerStepTake ==
    /\ \A k \in DOMAIN walk :
          LET visit == walk[k]
              before == IssuedBefore(k)
              take == Min(Min(visit.entry.points, visit.left), visit.balance)
          IN /\ visit.balance = BalanceOf(balanceAtCall, visit.entry.payer)
                                  + LedgerSum(before, visit.entry.payer)
             /\ visit.left = pointsToSpend.v + SumPoints(before)
             /\ visit.balance > 0 =>
                   /\ visit.appended
                   /\ Len(IssuedBefore(k + 1)) = Len(before) + 1
                   /\ issued[Len(before) + 1].payer = visit.entry.payer
                   /\ issued[Len(before) + 1].points = -1 * take
    /\ walk # <<>> => pointsLeft = pointsToSpend.v + SumPoints(issued)

\* A spend returned after an iteration read a balance its own earlier
\* transactions had already reduced, and took from it
C22_Witness ==
    /\ SpendReturned
    /\ \E k \in DOMAIN walk :
          /\ walk[k].appended
          /\ walk[k].balance > 0
          /\ walk[k].balance < BalanceOf(balanceAtCall, walk[k].entry.payer)
          /\ IssuedBefore(k) # <<>>

----------------------------------------------------------------------------
(* C23 *)

\* The payers whose balance was <= 0 when the current/last spendPoints began
DepletedAtCall ==
    {payer \in PayersOf(storeAtCall) : BalanceOf(balanceAtCall, payer) <= 0}

\* An iteration that reads a balance <= 0 appends nothing and leaves the points
\* left as they were; a payer depleted at call start gets no transaction and
\* keeps its balance
C23_SkipFrame ==
    /\ \A k \in DOMAIN walk :
          walk[k].balance <= 0 =>
              /\ ~walk[k].appended
              /\ IssuedBefore(k + 1) = IssuedBefore(k)
              /\ k < Len(walk) => walk[k + 1].left = walk[k].left
              /\ k = Len(walk) => pointsLeft = walk[k].left
    /\ walk # <<>> =>
          \A payer \in DepletedAtCall :
              /\ payer \notin PayersOf(issued)
              /\ BalanceOf(transactionSnapshotBalance, payer) = BalanceOf(balanceAtCall, payer)

\* C23: an iteration that reads a balance <= 0 appends nothing and leaves the
\* points left unchanged; so a payer whose balance is <= 0 when spendPoints is
\* called has the same balance when it returns, receives no synthetic
\* transaction and is not in the returned list.
C23_SkipIfDepleted ==
    /\ C23_SkipFrame
    /\ SpendReturned => \A payer \in DepletedAtCall : ~HasKey(ret.value, payer)

----------------------------------------------------------------------------
(* C24 *)

\* C24: the loop of spendPoints walks the ledger as it was when the call
\* began: its i-th iteration reads the i-th oldest pre-call entry, never a
\* transaction the call appended, with no entry skipped or read twice, and
\* every pre-call entry stays at its position below the captured length.
C24_WalkOverPreCall ==
    /\ \A k \in DOMAIN walk :
          /\ walk[k].index = k - 1
          /\ k <= Len(storeAtCall)
          /\ walk[k].entry = storeAtCall[k]
    /\ walk # <<>> =>
          SubSeq(transactionStore, 1, totalNumberOfTransactions) = storeAtCall

----------------------------------------------------------------------------
(* spendPoints run to completion: a call that entered its loop keeps iterating
   until the loop condition fails, then returns *)

TerminationLedger == 2

TerminationSpends == 1

TerminationNext ==
    \/ \E transactions \in Batches :
          /\ Len(transactionStore) + Len(transactions) <= TerminationLedger
          /\ Add(transactions)
          /\ UNCHANGED <<res, req, search>>
    \/ \E amount \in SpendAmounts :
          /\ nSpends < TerminationSpends
          /\ SpendPointsBegin(amount)
          /\ UNCHANGED <<res, req, search>>
    \/ SpendPointsStep
    \/ (SpendPointsReturn /\ UNCHANGED <<res, req, search>>)
    \/ Tick(MaxTime)

\* WF_vars(SpendPointsStep), with ENABLED <<SpendPointsStep>>_vars written as
\* the state predicate it equals: the action's guard (every iteration changes
\* transactionIndex)
SpendPointsStepFairness ==
    <>[](pc = "spend" /\ LoopContinues) => []<><<SpendPointsStep>>_vars

TerminationSpec ==
    /\ Init
    /\ [][TerminationNext]_vars
    /\ SpendPointsStepFairness
    /\ WF_vars(SpendPointsReturn /\ UNCHANGED <<res, req, search>>)

----------------------------------------------------------------------------
(* C25 *)

\* The loop of spendPoints never iterates more often, and never appends more
\* transactions, than the store held entries when the call began
C25_Bounded ==
    /\ transactionIndex <= totalNumberOfTransactions
    /\ Len(walk) <= totalNumberOfTransactions
    /\ Len(issued) <= Len(walk)
    /\ pc = "spend" => Len(walk) = transactionIndex

\* C25: every spendPoints call terminates: a call that entered its loop
\* returns, after at most N iterations and at most N synthetic transactions,
\* N being the store's length when the call began, also when negative entries
\* make the points left grow.
C25_Terminates ==
    /\ []C25_Bounded
    /\ (pc = "spend") ~> (pc = "idle")

\* A spend returned after reading every entry and appending a transaction for
\* each, one of which made the points left grow above the amount
C25_Witness ==
    /\ SpendReturned
    /\ totalNumberOfTransactions >= 2
    /\ Len(walk) = totalNumberOfTransactions
    /\ Len(issued) = totalNumberOfTransactions
    /\ \E k \in DOMAIN walk : walk[k].left > pointsToSpend.v

----------------------------------------------------------------------------
(* C26 *)

\* What the current/last spendPoints call has removed so far, net: the sum over
\* the payers of the balance at call start minus the balance now
NetRemoved == SumPoints(balanceAtCall) - SumPoints(transactionSnapshotBalance)

\* C26: during a spendPoints call and when it has returned, the points left
\* are >= 0, and the net total removed is at most the amount asked for and at
\* most the sum of the balances that were above 0 when the call began.
C26_NeverOverSpend ==
    (pc = "spend" \/ SpendReturned) =>
        /\ pointsLeft >= 0
        /\ \A k \in DOMAIN walk : walk[k].left >= 0
        /\ NetRemoved = pointsToSpend.v - pointsLeft
        /\ NetRemoved <= pointsToSpend.v
        /\ NetRemoved <= Spendable(balanceAtCall)

\* A spend returned that asked for more than the payers held, after the points
\* left had grown above the amount on a negative entry: it removed exactly what
\* was there
C26_Witness ==
    /\ SpendReturned
    /\ NetRemoved > 0
    /\ NetRemoved = Spendable(balanceAtCall)
    /\ NetRemoved < pointsToSpend.v
    /\ \E k \in DOMAIN walk : walk[k].left > pointsToSpend.v

----------------------------------------------------------------------------
(* The five mock transactions, whose timestamps are pairwise distinct, added in
   any order and any split into add calls, then spends of 5000 *)

OrderSpends == 1

\* The sequences of mock transactions without repetition
OrderBatches ==
    UNION { { [i \in 1..k |-> mockTransactions[f[i]]] :
                f \in {g \in [1..k -> DOMAIN mockTransactions] :
                          \A i, j \in 1..k : g[i] = g[j] => i = j} } :
            k \in DOMAIN mockTransactions }

OrderNext ==
    \/ \E transactions \in OrderBatches :
          /\ nSpends = 0
          /\ \A i \in DOMAIN transactions : Count(transactionStore, transactions[i]) = 0
          /\ Add(transactions)
          /\ UNCHANGED <<res, req, search>>
    \/ /\ nSpends < OrderSpends
       /\ Len(transactionStore) >= Len(mockTransactions)
       /\ SpendPointsBegin(Number(5000))
       /\ UNCHANGED <<res, req, search>>
    \/ SpendPointsStep
    \/ (SpendPointsReturn /\ UNCHANGED <<res, req, search>>)
    \/ (ShowPayerPoints /\ UNCHANGED <<res, req, search>>)
    \/ Tick(Hour(2, 17))

OrderSpec == ScenarioInit /\ [][OrderNext]_vars

----------------------------------------------------------------------------
(* C27 *)

\* The mock transactions by ascending timestamp
mockTransactionsByTime ==
    << Transaction("DANNON", 300, Date(Hour(0, 10))),
       Transaction("UNILEVER", 200, Date(Hour(0, 11))),
       Transaction("DANNON", -200, Date(Hour(0, 15))),
       Transaction("MILLER COORS", 10000, Date(Hour(1, 14))),
       Transaction("DANNON", 1000, Date(Hour(2, 14))) >>

\* C27: transactions with pairwise distinct timestamps, added in any order and
\* any split into add calls, leave the same store and the same projection:
\* the store holds the transactions added so far by ascending timestamp, the
\* projection is the one built from it, and a spendPoints on the complete
\* store returns the same list whatever the order was.
C27_OrderIndependent ==
    /\ nSpends = 0 =>
          /\ transactionStore =
                SelectSeq(mockTransactionsByTime,
                          LAMBDA t : Count(transactionStore, t) > 0)
          /\ transactionSnapshotBalance = buildProjection(transactionStore)
    /\ (nSpends = 0 /\ Len(transactionStore) = Len(mockTransactions)) =>
          /\ transactionStore = mockTransactionsByTime
          /\ transactionSnapshotBalance =
                << Entry("DANNON", 1100), Entry("UNILEVER", 200),
                   Entry("MILLER COORS", 10000) >>
    /\ (SpendReturned /\ nSpends = 1) =>
          /\ storeAtCall = mockTransactionsByTime
          /\ ret.value = << Entry("DANNON", -100), Entry("UNILEVER", -200),
                            Entry("MILLER COORS", -4700) >>

\* The mock transactions were all added, in some order and some split into
\* calls, and a spend of 5000 on them has returned
C27_Witness ==
    /\ SpendReturned
    /\ nSpends = 1
    /\ storeAtCall = mockTransactionsByTime

----------------------------------------------------------------------------
(* C28 *)

\* The payers the cached projection lists
PayerKeys ==
    {transactionSnapshotBalance[i].payer : i \in DOMAIN transactionSnapshotBalance}

\* The listed payers are exactly those with a transaction in the store, and
\* showPayerPoints returns that list
C28_ExactlyThePayers ==
    /\ PayerKeys = PayersOf(transactionStore)
    /\ NoDuplicateKeys(transactionSnapshotBalance)
    /\ (pc = "idle" /\ ret.op = "showPayerPoints") =>
          /\ ret.value = transactionSnapshotBalance
          /\ {ret.value[i].payer : i \in DOMAIN ret.value} = PayersOf(transactionStore)

\* C28: the set of payers showPayerPoints lists never shrinks: it is always
\* exactly the set of payers with at least one transaction in the store, no
\* step removes a payer from it, and a payer whose points are all spent stays
\* listed with 0.
C28_PayersNeverShrink ==
    /\ []C28_ExactlyThePayers
    /\ [][PayerKeys \subseteq PayerKeys']_vars

\* showPayerPoints was called after a spend took all the points of a payer: it
\* lists that payer with 0
C28_Witness ==
    /\ pc = "idle"
    /\ ret.op = "showPayerPoints"
    /\ \E i \in DOMAIN ret.value :
          /\ ret.value[i].points = 0
          /\ BalanceOf(balanceAtCall, ret.value[i].payer) > 0
          /\ ret.value[i].payer \in PayersOf(issued)

----------------------------------------------------------------------------
(* The routes on bodies whose points field is a string: express.json() hands
   the handlers whatever JSON value the body carries, unmarshalTransaction
   stores payload["points"] as it is, and the service's arithmetic coerces it *)

CoercionLedger == 2

CoercionSpends == 1

DigitChars == <<"0", "1", "2", "3", "4", "5", "6", "7", "8", "9">>

IsDigit(c) == \E d \in DOMAIN DigitChars : DigitChars[d] = c

DigitValue(c) == (CHOOSE d \in DOMAIN DigitChars : DigitChars[d] = c) - 1

\* A points value: a number (NaN included) or a string, as its characters
PointsNumber(v) == [kind |-> "number", nan |-> FALSE, v |-> v, chars |-> <<>>]

PointsNaN == [kind |-> "number", nan |-> TRUE, v |-> 0, chars |-> <<>>]

PointsString(chars) == [kind |-> "string", nan |-> FALSE, v |-> 0, chars |-> chars]

\* The decimal digits of a natural number
RECURSIVE DigitsOf(_)
DigitsOf(n) ==
    IF n < 10 THEN <<DigitChars[n + 1]>>
    ELSE DigitsOf(n \div 10) \o <<DigitChars[(n % 10) + 1]>>

\* The natural number a sequence of digits reads as
RECURSIVE DecimalValue(_)
DecimalValue(chars) ==
    IF chars = <<>> THEN 0
    ELSE 10 * DecimalValue(SubSeq(chars, 1, Len(chars) - 1)) + DigitValue(chars[Len(chars)])

AllDigits(chars) == chars # <<>> /\ \A i \in DOMAIN chars : IsDigit(chars[i])

\* ToString of a points value
PointsToString(value) ==
    IF value.kind = "string" THEN value.chars
    ELSE IF value.nan THEN <<"N", "a", "N">>
    ELSE IF value.v < 0 THEN <<"-">> \o DigitsOf(-1 * value.v)
    ELSE DigitsOf(value.v)

\* ToNumber of a points value: "" is 0, a decimal literal is its value, any
\* other string is NaN
PointsToNumber(value) ==
    IF value.kind = "number" THEN value
    ELSE IF value.chars = <<>> THEN PointsNumber(0)
    ELSE IF AllDigits(value.chars) THEN PointsNumber(DecimalValue(value.chars))
    ELSE IF Head(value.chars) = "-" /\ AllDigits(Tail(value.chars))
         THEN PointsNumber(-1 * DecimalValue(Tail(value.chars)))
    ELSE PointsNaN

\* a + b: concatenation when either operand is a string
PointsPlus(a, b) ==
    IF a.kind = "string" \/ b.kind = "string"
    THEN PointsString(PointsToString(a) \o PointsToString(b))
    ELSE IF a.nan \/ b.nan THEN PointsNaN
    ELSE PointsNumber(a.v + b.v)

\* a - b and a * b: both operands through ToNumber
PointsMinus(a, b) ==
    LET x == PointsToNumber(a)
        y == PointsToNumber(b)
    IN IF x.nan \/ y.nan THEN PointsNaN ELSE PointsNumber(x.v - y.v)

PointsTimes(a, b) ==
    LET x == PointsToNumber(a)
        y == PointsToNumber(b)
    IN IF x.nan \/ y.nan THEN PointsNaN ELSE PointsNumber(x.v * y.v)

\* Math.min(a, b)
MathMin(a, b) ==
    LET x == PointsToNumber(a)
        y == PointsToNumber(b)
    IN IF x.nan \/ y.nan THEN PointsNaN ELSE PointsNumber(Min(x.v, y.v))

\* a <= 0 and a > 0: false on NaN
PointsAtMostZero(a) == ~PointsToNumber(a).nan /\ PointsToNumber(a).v <= 0

PointsAboveZero(a) == ~PointsToNumber(a).nan /\ PointsToNumber(a).v > 0

\* !a is false
PointsTruthy(a) ==
    IF a.kind = "string" THEN a.chars # <<>> ELSE ~a.nan /\ a.v # 0

\* projection[payer] = 0 when undefined, then projection[payer] += points
AccumulateCoerced(projection, transaction) ==
    IF HasKey(projection, transaction.payer)
    THEN [i \in DOMAIN projection |->
            IF projection[i].payer = transaction.payer
            THEN [projection[i] EXCEPT !.points = PointsPlus(@, transaction.points)]
            ELSE projection[i]]
    ELSE Append(projection, [payer |-> transaction.payer,
                             points |-> PointsPlus(PointsNumber(0), transaction.points)])

RECURSIVE ProjectionLoopCoerced(_, _)
ProjectionLoopCoerced(subsetTransactions, projection) ==
    IF subsetTransactions = <<>> THEN projection
    ELSE ProjectionLoopCoerced(Tail(subsetTransactions),
                               AccumulateCoerced(projection, Head(subsetTransactions)))

buildProjectionFromIndexCoerced(store, index) ==
    ProjectionLoopCoerced(SubSeq(store, Max(index, 0) + 1, Len(store)), <<>>)

addCoerced(transactions) ==
    /\ transactionStore' = StableSort(transactionStore \o transactions)
    /\ transactionSnapshotBalance' = buildProjectionFromIndexCoerced(transactionStore', 0)

\* validateTransaction on a payload whose payer and timestamp are present
validateTransactionCoerced(payload) ==
    IF ~Truthy(payload.payer) THEN "Missing payer field"
    ELSE IF ~Truthy(payload.timestamp) THEN "Timestamp must be a valid date"
    ELSE IF ~PointsTruthy(payload.points) \/ PointsToNumber(payload.points).nan
         THEN "Missing points field, must be a number"
    ELSE ""

unmarshalTransactionCoerced(payload) ==
    Transaction(payload.payer.s, payload.points, NewDate(payload.timestamp.s))

\* POST /transactions with one transaction object
AddTransactionRouteCoerced(payload) ==
    /\ pc = "idle"
    /\ IF validateTransactionCoerced(payload) # ""
       THEN /\ res' = failedResponse(validateTransactionCoerced(payload), 400)
            /\ UNCHANGED <<transactionStore, transactionSnapshotBalance>>
       ELSE /\ addCoerced(<<unmarshalTransactionCoerced(payload)>>)
            /\ res' = successfulResponse("Ok", <<>>)
    /\ UNCHANGED <<now, pc, spendLocals, ret, req, search, history, nSpends>>

\* PUT /transactions with a number as points, up to the loop of spendPoints
SpendPointsRouteCoerced(amount) ==
    /\ pc = "idle"
    /\ nSpends' = nSpends + 1
    /\ IF amount.nan \/ amount.v < 0
       THEN /\ res' = failedResponse("Points field must be a valid positive number", 400)
            /\ UNCHANGED <<pc, spendLocals>>
       ELSE /\ pointsToSpend' = amount
            /\ totalNumberOfTransactions' = Len(transactionStore)
            /\ pointsLeft' = PointsNumber(amount.v)
            /\ transactionIndex' = 0
            /\ pc' = "spend"
            /\ UNCHANGED res
    /\ UNCHANGED <<transactionStore, transactionSnapshotBalance, now, ret, req, search,
                   history>>

LoopContinuesCoerced ==
    /\ PointsAboveZero(pointsLeft)
    /\ transactionIndex < totalNumberOfTransactions

\* One iteration of the while loop of spendPoints
SpendPointsStepCoerced ==
    /\ pc = "spend"
    /\ LoopContinuesCoerced
    /\ LET entry == transactionStore[transactionIndex + 1]
           balance == Lookup(transactionSnapshotBalance, entry.payer)
           pointsToRemove == MathMin(MathMin(entry.points, pointsLeft), balance)
           transaction == Transaction(entry.payer,
                                      PointsTimes(PointsNumber(-1), pointsToRemove),
                                      Date(now))
       IN IF PointsAtMostZero(balance)
          THEN UNCHANGED <<transactionStore, transactionSnapshotBalance, pointsLeft>>
          ELSE /\ pointsLeft' = PointsMinus(pointsLeft, pointsToRemove)
               /\ addCoerced(<<transaction>>)
    /\ transactionIndex' = transactionIndex + 1
    /\ UNCHANGED <<now, pc, pointsToSpend, totalNumberOfTransactions, ret, res, req,
                   search, history, nSpends>>

\* PUT /transactions once the loop has ended
SpendPointsRouteReturnCoerced ==
    /\ pc = "spend"
    /\ ~LoopContinuesCoerced
    /\ pc' = "idle"
    /\ ret' = Returned("spendPoints",
                       buildProjectionFromIndexCoerced(transactionStore,
                                                       totalNumberOfTransactions))
    /\ res' = successfulResponse("", ret'.value)
    /\ UNCHANGED <<transactionStore, transactionSnapshotBalance, now, spendLocals, req,
                   search, history, nSpends>>

\* The points a body may carry: numbers, and the strings "0", "" and "a"
CoercionPoints ==
    {PointsNumber(0), PointsNumber(5), PointsNumber(-1),
     PointsString(<<"0">>), PointsString(<<>>), PointsString(<<"a">>)}

CoercionPayloads ==
    {[payer |-> JString("DANNON"), points |-> points, timestamp |-> JString(iso)] :
        points \in CoercionPoints, iso \in {IsoFirst, IsoSecond}}

CoercionInit ==
    /\ transactionStore = <<>>
    /\ transactionSnapshotBalance = <<>>
    /\ now = 1
    /\ pc = "idle"
    /\ pointsToSpend = Number(0)
    /\ totalNumberOfTransactions = 0
    /\ pointsLeft = PointsNumber(0)
    /\ transactionIndex = 0
    /\ ret = Returned("none", <<>>)
    /\ res = NoResponse
    /\ req = NoRequest
    /\ search = NoSearch
    /\ storeAtCall = <<>>
    /\ balanceAtCall = <<>>
    /\ issued = <<>>
    /\ walk = <<>>
    /\ runBudget = 0
    /\ budgetAtCall = 0
    /\ wentNegative = FALSE
    /\ nSpends = 0

CoercionNext ==
    \/ \E payload \in CoercionPayloads :
          /\ Len(transactionStore) < CoercionLedger
          /\ AddTransactionRouteCoerced(payload)
    \/ \E amount \in {Number(-1), Number(1), Number(5)} :
          /\ nSpends < CoercionSpends
          /\ SpendPointsRouteCoerced(amount)
    \/ SpendPointsStepCoerced
    \/ SpendPointsRouteReturnCoerced
    \/ Tick(MaxTime)

CoercionSpec == CoercionInit /\ [][CoercionNext]_vars

----------------------------------------------------------------------------
(* C29 *)

\* Through the routes with numbers as points, no stored transaction has points 0
C29_NoZeroAmongNumbers ==
    \A i \in DOMAIN transactionStore : transactionStore[i].points # 0

\* C29: in every state reachable through the routes alone, no transaction of
\* the store has points = 0: the add route rejects 0 and spendPoints appends
\* only non-zero points.
C29_NoZeroPoints ==
    \A i \in DOMAIN transactionStore :
        ~(/\ transactionStore[i].points.kind = "number"
          /\ ~transactionStore[i].points.nan
          /\ transactionStore[i].points.v = 0)

----------------------------------------------------------------------------
(* C30 *)

\* The transactions of store that carry timestamp, in the order store has them
Ties(store, timestamp) ==
    SelectSeq(store, LAMBDA transaction : transaction.timestamp = timestamp)

ValidTimestamps(store) ==
    {store[i].timestamp : i \in {j \in DOMAIN store : store[j].timestamp.valid}}

IsPrefix(a, b) == Len(a) <= Len(b) /\ SubSeq(b, 1, Len(a)) = a

\* A step keeps the transactions of every timestamp in the order they had and
\* puts the new ones after them; an accepted POST puts its transactions of one
\* timestamp in the order of its body
C30_StableTiesStep ==
    /\ \A timestamp \in ValidTimestamps(transactionStore) :
          IsPrefix(Ties(transactionStore, timestamp), Ties(transactionStore', timestamp))
    /\ (req'.route = "POST" /\ res'.status = 200 /\ transactionStore' # transactionStore) =>
          LET transactions == [i \in DOMAIN req'.body.items |->
                                  unmarshalTransaction(req'.body.items[i])]
          IN \A timestamp \in ValidTimestamps(transactionStore') :
                Ties(transactionStore', timestamp) =
                    Ties(transactionStore, timestamp) \o Ties(transactions, timestamp)

----------------------------------------------------------------------------
(* buildProjection(fromTimestamp) on the ledgers add builds *)

TimeBoundedLedger == 3

\* The while loop of findIndexFromTimestamp from the bounds it has reached:
\* the index of the entry it stops on, -1 when the bounds cross
RECURSIVE findIndexFromTimestampLoop(_, _, _, _)
findIndexFromTimestampLoop(transactions, timestamp, lowBounds, highBounds) ==
    IF lowBounds > highBounds THEN -1
    ELSE LET foundIndex == (lowBounds + highBounds) \div 2
             found == transactions[foundIndex + 1].timestamp
         IN IF LessThan(found, timestamp)
            THEN findIndexFromTimestampLoop(transactions, timestamp,
                                            foundIndex + 1, highBounds)
            ELSE IF LessThan(timestamp, found)
            THEN findIndexFromTimestampLoop(transactions, timestamp,
                                            lowBounds, foundIndex - 1)
            ELSE foundIndex

findIndexFromTimestamp(transactions, timestamp) ==
    findIndexFromTimestampLoop(transactions, timestamp, 0, Len(transactions) - 1)

\* buildProjection(fromTimestamp) with a timestamp: the projection from the
\* entry after the one findIndexFromTimestamp returns
buildProjectionFromTimestamp(store, fromTimestamp) ==
    buildProjectionFromIndex(store, findIndexFromTimestamp(store, fromTimestamp) + 1)

\* Timestamps before, among and after those of the ledger
TimeBoundedTimestamps == {Date(ms) : ms \in 0..(MaxTime + 1)}

\* this.buildProjection(fromTimestamp)
BuildProjection(fromTimestamp) ==
    /\ pc = "idle"
    /\ ret' = [op |-> "buildProjection", threw |-> FALSE, timestamp |-> fromTimestamp,
               value |-> buildProjectionFromTimestamp(transactionStore, fromTimestamp)]
    /\ UNCHANGED <<transactionStore, transactionSnapshotBalance, now, pc, spendLocals,
                   history, nSpends>>

TimeBoundedNext ==
    \/ \E transactions \in Batches :
          /\ Len(transactionStore) + Len(transactions) <= TimeBoundedLedger
          /\ Add(transactions)
          /\ UNCHANGED <<res, req, search>>
    \/ \E fromTimestamp \in TimeBoundedTimestamps :
          /\ BuildProjection(fromTimestamp)
          /\ UNCHANGED <<res, req, search>>

TimeBoundedSpec == Init /\ [][TimeBoundedNext]_vars

----------------------------------------------------------------------------
(* C31 *)

\* The transactions of store whose timestamp is later than timestamp
LaterThan(store, timestamp) ==
    SelectSeq(store, LAMBDA transaction : LessThan(timestamp, transaction.timestamp))

\* buildProjection(ts) has returned and nothing was called since
ProjectionReturned == pc = "idle" /\ ret.op = "buildProjection"

\* buildProjection(ts) is right when exactly one entry carries ts, and when no
\* entry carries ts and none is earlier
C31_WhenFoundOnce ==
    ( /\ ProjectionReturned
      /\ \/ Len(Ties(transactionStore, ret.timestamp)) = 1
         \/ LaterThan(transactionStore, ret.timestamp) = transactionStore )
    => /\ NoDuplicateKeys(ret.value)
       /\ Entries(ret.value) =
             {<<payer, LedgerSum(LaterThan(transactionStore, ret.timestamp), payer)>> :
                 payer \in PayersOf(LaterThan(transactionStore, ret.timestamp))}

\* C31: on every sorted ledger and for every timestamp ts, buildProjection(ts)
\* returns one entry per payer that has a transaction later than ts, with the
\* sum of that payer's points over exactly those transactions, also when no
\* entry carries ts and when several do.
C31_TimeBoundedProjection ==
    ProjectionReturned =>
        /\ NoDuplicateKeys(ret.value)
        /\ Entries(ret.value) =
              {<<payer, LedgerSum(LaterThan(transactionStore, ret.timestamp), payer)>> :
                  payer \in PayersOf(LaterThan(transactionStore, ret.timestamp))}
====
